---- MODULE Spec2Model ----
(***************************************************************************)
(* Model of the comment tokenizer of github-action-auto-assign:            *)
(* BackableStringIterator, LowLevelScanner and tokenizeHighLevel           *)
(* (exported as tokenizeString).                                           *)
(*                                                                         *)
(* A JavaScript string is a sequence of one-character strings.  A value    *)
(* that may be null is an option: Null (the empty tuple) or Some(v).       *)
(***************************************************************************)
EXTENDS Integers, Sequences, FiniteSets, TLC

\* Longest input string enumerated exhaustively.
MaxLen == 3
\* Calls of LowLevelScanner.next() a driver makes after the scanner closed.
MaxCallsAfterEof == 2
\* Calls of next()/back() a driver makes on a bare BackableStringIterator.
MaxOps == 5

Null == <<>>
Some(v) == <<v>>

\* LET x == e IN F(x), with e evaluated once, to a value, before F uses it.
Let(e, F(_)) == CHOOSE y \in {F(x) : x \in {e}} : TRUE

---------------------------------------------------------------------------
(* Characters and inputs *)

\* The 25 code points of the class /\s/u. A code point a string of this
\* module cannot hold is written by its name, "U+00A0"; the third string
\* below holds the one character U+000B (vertical tab).
WhiteSpaceChars ==
    {" ", "\t", "", "\n", "\r", "\f",
     "U+00A0", "U+1680",
     "U+2000", "U+2001", "U+2002", "U+2003", "U+2004", "U+2005",
     "U+2006", "U+2007", "U+2008", "U+2009", "U+200A",
     "U+2028", "U+2029", "U+202F", "U+205F", "U+3000", "U+FEFF"}

Alphabet == {" ", "\n", "|", "&", "r", "+", "-", "?", "@", "x"}

Strings(n) == UNION {[1..k -> Alphabet] : k \in 0..n}

\* Inputs longer than MaxLen, or with characters outside Alphabet.
Examples ==
    { <<"r", "+", " ", "@", "b", "o", "b", " ", "@", "c", "a", "r", "o", "l">>,
      <<"l", "o", "o", "k", "s", " ", "g", "o", "o", "d", " ", "t", "o", " ", "m", "e">>,
      <<" ", " ", " ", "\n", "\t", " ", " ">>,
      <<"@", "a", "l", "i", "c", "e">>,
      <<"R", "+">>,
      <<"@", " ", "@", "@", "x">>,
      <<"|", "|", "|", "|">>,
      <<"r", "+", "|", "|", "r", "-">>,
      <<"|", "x", "r", "+">>,
      <<"|", " ", "r", "+">>,
      <<"|", "x", "y">>,
      <<"r", "?", " ", "r", "-">>,
      <<"x", " ", "|", "r", "+", "\t", "@", "@", "x">>,
      <<"r", "+", "", "@", "b", "o", "b">>,
      <<"r", "-", "U+00A0", "\f", "U+FEFF", "\r", "x">> }

Inputs == Strings(MaxLen) \cup Examples

---------------------------------------------------------------------------
(* BackableStringIterator *)

\* str[Symbol.iterator](): the built-in string iterator, a position in str.
StringIterator(str) == [str |-> str, pos |-> 0]

StringIterator_next(i) ==
    IF i.pos < Len(i.str)
    THEN [iter |-> [i EXCEPT !.pos = @ + 1], done |-> FALSE,
          value |-> Some(i.str[i.pos + 1])]
    ELSE [iter |-> i, done |-> TRUE, value |-> Null]

\* calls counts the invocations of next() on the object (instrumentation).
BackableStringIterator(str) ==
    [_iter |-> StringIterator(str), _prevCache |-> Null, _prev |-> Null,
     calls |-> 0]

\* Mutant: the replay leaves _prev set.
BackableStringIterator_next_KeepsPrev(it) ==
    IF it._prev # Null
    THEN [it |-> [it EXCEPT !._prevCache = it._prev, !.calls = @ + 1],
          done |-> FALSE, value |-> it._prev]
    ELSE LET r == StringIterator_next(it._iter)
         IN  [it |-> [it EXCEPT !._iter = r.iter,
                                !._prevCache = IF r.done THEN Null ELSE r.value,
                                !.calls = @ + 1],
              done |-> r.done, value |-> r.value]

BackableStringIterator_next(it) ==
    IF it._prev # Null
    THEN [it |-> [it EXCEPT !._prev = Null, !._prevCache = it._prev,
                            !.calls = @ + 1],
          done |-> FALSE, value |-> it._prev]
    ELSE LET r == StringIterator_next(it._iter)
         IN  [it |-> [it EXCEPT !._iter = r.iter,
                                !._prevCache = IF r.done THEN Null ELSE r.value,
                                !.calls = @ + 1],
              done |-> r.done, value |-> r.value]

\* Mutant: back() leaves _prevCache set.
BackableStringIterator_back_KeepsCache(it) ==
    IF it._prevCache = Null
    THEN [it |-> it, threw |-> TRUE]
    ELSE [it |-> [it EXCEPT !._prev = it._prevCache], threw |-> FALSE]

\* threw: the assert.notStrictEqual of back() failed; nothing was assigned.
BackableStringIterator_back(it) ==
    IF it._prevCache = Null
    THEN [it |-> it, threw |-> TRUE]
    ELSE [it |-> [it EXCEPT !._prev = it._prevCache, !._prevCache = Null],
          threw |-> FALSE]

---------------------------------------------------------------------------
(* LowLevelScanner *)

LowLevelTokenType ==
    [WhiteSpace |-> 0, Eof |-> 1, Identifier |-> 2, Operator |-> 3, Invalid |-> 4]

LowLevelToken(type, val) == [type |-> type, value |-> val]

isWhiteSpace(char) == char \in WhiteSpaceChars

isOperatorFragment(char) == (char = "|") \/ (char = "&")

\* _sourceIter is a reference to the iterator object, or null.
LowLevelScanner(source) == [_sourceIter |-> Some("iter"), _hasReachedEof |-> FALSE]

\* Mutant: _destroy drops the iterator and does not set _hasReachedEof.
_destroy_KeepsOpen(sc) == [sc EXCEPT !._sourceIter = Null]

_destroy(sc) == [sc EXCEPT !._sourceIter = Null, !._hasReachedEof = TRUE]

\* Mutant: the whitespace loop pushes back at the end of input too.
RECURSIVE _scanWhiteSpaceLoop_BackAtEnd(_, _)
_scanWhiteSpaceLoop_BackAtEnd(it, buffer) ==
    Let(BackableStringIterator_next(it), LAMBDA r :
        IF r.done \/ ~isWhiteSpace(r.value[1])
        THEN Let(BackableStringIterator_back(r.it), LAMBDA b :
                 [it |-> b.it, threw |-> b.threw, buffer |-> buffer])
        ELSE _scanWhiteSpaceLoop_BackAtEnd(r.it, Append(buffer, r.value[1])))

\* Mutant: the whitespace loop does not push the ending character back.
RECURSIVE _scanWhiteSpaceLoop_NoBack(_, _)
_scanWhiteSpaceLoop_NoBack(it, buffer) ==
    Let(BackableStringIterator_next(it), LAMBDA r :
        IF r.done \/ ~isWhiteSpace(r.value[1])
        THEN [it |-> r.it, threw |-> FALSE, buffer |-> buffer]
        ELSE _scanWhiteSpaceLoop_NoBack(r.it, Append(buffer, r.value[1])))

\* The scan functions take the iterator object and return it as they leave it,
\* with the token returned, or threw when back() raised.
RECURSIVE _scanWhiteSpaceLoop(_, _)
_scanWhiteSpaceLoop(it, buffer) ==
    Let(BackableStringIterator_next(it), LAMBDA r :
        IF r.done
        THEN [it |-> r.it, threw |-> FALSE, buffer |-> buffer]
        ELSE IF ~isWhiteSpace(r.value[1])
        THEN Let(BackableStringIterator_back(r.it), LAMBDA b :
                 [it |-> b.it, threw |-> b.threw, buffer |-> buffer])
        ELSE _scanWhiteSpaceLoop(r.it, Append(buffer, r.value[1])))

_scanWhiteSpace(it, char) ==
    Let(_scanWhiteSpaceLoop(it, <<char>>), LAMBDA l :
        [it |-> l.it, threw |-> l.threw,
         token |-> LowLevelToken(LowLevelTokenType.WhiteSpace, Some(l.buffer))])

\* Mutant: an operator fragment ends the identifier and is pushed back.
RECURSIVE _scanIdentifierLoop_StopsAtFragment(_, _)
_scanIdentifierLoop_StopsAtFragment(it, buffer) ==
    Let(BackableStringIterator_next(it), LAMBDA r :
        IF r.done
        THEN [it |-> r.it, threw |-> FALSE, buffer |-> buffer]
        ELSE IF isWhiteSpace(r.value[1]) \/ isOperatorFragment(r.value[1])
        THEN Let(BackableStringIterator_back(r.it), LAMBDA b :
                 [it |-> b.it, threw |-> b.threw, buffer |-> buffer])
        ELSE _scanIdentifierLoop_StopsAtFragment(r.it, Append(buffer, r.value[1])))

\* Mutant: the whitespace that ends the identifier is not pushed back.
RECURSIVE _scanIdentifierLoop_NoBack(_, _)
_scanIdentifierLoop_NoBack(it, buffer) ==
    Let(BackableStringIterator_next(it), LAMBDA r :
        IF r.done \/ isWhiteSpace(r.value[1])
        THEN [it |-> r.it, threw |-> FALSE, buffer |-> buffer]
        ELSE _scanIdentifierLoop_NoBack(r.it, Append(buffer, r.value[1])))

RECURSIVE _scanIdentifierLoop(_, _)
_scanIdentifierLoop(it, buffer) ==
    Let(BackableStringIterator_next(it), LAMBDA r :
        IF r.done
        THEN [it |-> r.it, threw |-> FALSE, buffer |-> buffer]
        ELSE IF isWhiteSpace(r.value[1])
        THEN Let(BackableStringIterator_back(r.it), LAMBDA b :
                 [it |-> b.it, threw |-> b.threw, buffer |-> buffer])
        ELSE _scanIdentifierLoop(r.it, Append(buffer, r.value[1])))

_scanIdentifier(it, char) ==
    Let(_scanIdentifierLoop(it, <<char>>), LAMBDA l :
        [it |-> l.it, threw |-> l.threw,
         token |-> LowLevelToken(LowLevelTokenType.Identifier, Some(l.buffer))])

\* Mutant: the other fragment is not pushed back.
_scanOperator_NoBack(it, char) ==
    Let(BackableStringIterator_next(it), LAMBDA r :
        IF r.done \/ ~isOperatorFragment(r.value[1]) \/ char # r.value[1]
        THEN [it |-> r.it, threw |-> FALSE,
              token |-> LowLevelToken(LowLevelTokenType.Invalid, Some(<<char>>))]
        ELSE [it |-> r.it, threw |-> FALSE,
              token |-> LowLevelToken(LowLevelTokenType.Operator,
                                      Some(<<char, r.value[1]>>))])

\* Mutant: any two fragments make an Operator.
_scanOperator_AnyPair(it, char) ==
    Let(BackableStringIterator_next(it), LAMBDA r :
        IF r.done \/ ~isOperatorFragment(r.value[1])
        THEN [it |-> r.it, threw |-> FALSE,
              token |-> LowLevelToken(LowLevelTokenType.Invalid, Some(<<char>>))]
        ELSE [it |-> r.it, threw |-> FALSE,
              token |-> LowLevelToken(LowLevelTokenType.Operator,
                                      Some(<<char, r.value[1]>>))])

\* Mutant: the character after a lone fragment is pushed back.
_scanOperator_PushBack(it, char) ==
    Let(BackableStringIterator_next(it), LAMBDA r :
        IF r.done
        THEN [it |-> r.it, threw |-> FALSE,
              token |-> LowLevelToken(LowLevelTokenType.Invalid, Some(<<char>>))]
        ELSE IF char # r.value[1]
        THEN Let(BackableStringIterator_back(r.it), LAMBDA b :
                 [it |-> b.it, threw |-> b.threw,
                  token |-> LowLevelToken(LowLevelTokenType.Invalid, Some(<<char>>))])
        ELSE [it |-> r.it, threw |-> FALSE,
              token |-> LowLevelToken(LowLevelTokenType.Operator,
                                      Some(<<char, r.value[1]>>))])

_scanOperator(it, char) ==
    Let(BackableStringIterator_next(it), LAMBDA r :
        IF r.done
        THEN [it |-> r.it, threw |-> FALSE,
              token |-> LowLevelToken(LowLevelTokenType.Invalid, Some(<<char>>))]
        ELSE IF ~isOperatorFragment(r.value[1])
        THEN [it |-> r.it, threw |-> FALSE,
              token |-> LowLevelToken(LowLevelTokenType.Invalid, Some(<<char>>))]
        ELSE IF char # r.value[1]
        THEN Let(BackableStringIterator_back(r.it), LAMBDA b :
                 [it |-> b.it, threw |-> b.threw,
                  token |-> LowLevelToken(LowLevelTokenType.Invalid, Some(<<char>>))])
        ELSE [it |-> r.it, threw |-> FALSE,
              token |-> LowLevelToken(LowLevelTokenType.Operator,
                                      Some(<<char, r.value[1]>>))])

\* Mutant: the end of input is not checked; the undefined character goes to
\* _scanIdentifier, which returns an Identifier without reading further.
_scan_NoDoneCheck(it) ==
    Let(BackableStringIterator_next(it), LAMBDA r :
        IF r.done
        THEN [it |-> r.it, threw |-> FALSE,
              token |-> LowLevelToken(LowLevelTokenType.Identifier,
                                      Some(<<"undefined">>))]
        ELSE IF isWhiteSpace(r.value[1])
        THEN _scanWhiteSpace(r.it, r.value[1])
        ELSE IF isOperatorFragment(r.value[1])
        THEN _scanOperator(r.it, r.value[1])
        ELSE _scanIdentifier(r.it, r.value[1]))

_scan(it) ==
    Let(BackableStringIterator_next(it), LAMBDA r :
        IF r.done
        THEN [it |-> r.it, threw |-> FALSE,
              token |-> LowLevelToken(LowLevelTokenType.Eof, Null)]
        ELSE IF isWhiteSpace(r.value[1])
        THEN _scanWhiteSpace(r.it, r.value[1])
        ELSE IF isOperatorFragment(r.value[1])
        THEN _scanOperator(r.it, r.value[1])
        ELSE _scanIdentifier(r.it, r.value[1]))

\* next() of the scanner sc whose iterator object is it: the scanner and the
\* object afterwards, and the result {done, value}.
LowLevelScanner_next(sc, it) ==
    IF sc._hasReachedEof
    THEN [sc |-> sc, it |-> it, threw |-> FALSE, done |-> TRUE, value |-> Null]
    ELSE IF sc._sourceIter = Null
    THEN \* _scan calls next() of null: a TypeError
         [sc |-> sc, it |-> it, threw |-> TRUE, done |-> FALSE, value |-> Null]
    ELSE Let(_scan(it), LAMBDA s :
             IF s.threw
             THEN [sc |-> sc, it |-> s.it, threw |-> TRUE, done |-> FALSE,
                   value |-> Null]
             ELSE [sc |-> IF s.token.type = LowLevelTokenType.Eof
                          THEN _destroy(sc) ELSE sc,
                   it |-> s.it, threw |-> FALSE, done |-> FALSE,
                   value |-> Some(s.token)])

---------------------------------------------------------------------------
(* tokenizeHighLevel *)

TokenType ==
    [Directive |-> 0, AcceptPullRequest |-> 1, RejectPullRequest |-> 2,
     AssignReviewer |-> 3, UserName |-> 4, Unknown |-> 5, Eof |-> 6]

HighLevelToken(type, value) == [type |-> type, value |-> value]

\* Mutant: the three commands are yielded without their Directive.
createHighLevelToken_NoDirective(token) ==
    LET value == token.value[1]
    IN  IF value = <<"r", "?">>
        THEN << HighLevelToken(TokenType.AssignReviewer, Null) >>
        ELSE IF value = <<"r", "-">>
        THEN << HighLevelToken(TokenType.RejectPullRequest, Null) >>
        ELSE IF value = <<"r", "+">>
        THEN << HighLevelToken(TokenType.AcceptPullRequest, Null) >>
        ELSE IF Len(value) >= 1 /\ value[1] = "@"
        THEN << HighLevelToken(TokenType.UserName, Some(Tail(value))) >>
        ELSE << HighLevelToken(TokenType.Unknown, Null) >>

\* Mutant: the cases r- and r+ are exchanged.
createHighLevelToken_Swapped(token) ==
    LET value == token.value[1]
    IN  IF value = <<"r", "?">>
        THEN << HighLevelToken(TokenType.Directive, Null),
                HighLevelToken(TokenType.AssignReviewer, Null) >>
        ELSE IF value = <<"r", "-">>
        THEN << HighLevelToken(TokenType.Directive, Null),
                HighLevelToken(TokenType.AcceptPullRequest, Null) >>
        ELSE IF value = <<"r", "+">>
        THEN << HighLevelToken(TokenType.Directive, Null),
                HighLevelToken(TokenType.RejectPullRequest, Null) >>
        ELSE IF Len(value) >= 1 /\ value[1] = "@"
        THEN << HighLevelToken(TokenType.UserName, Some(Tail(value))) >>
        ELSE << HighLevelToken(TokenType.Unknown, Null) >>

RECURSIVE StripAllAt(_)
StripAllAt(value) ==
    IF Len(value) >= 1 /\ value[1] = "@" THEN StripAllAt(Tail(value)) ELSE value

\* Mutant: every leading @ is removed (/^@+/u).
createHighLevelToken_StripAll(token) ==
    LET value == token.value[1]
    IN  IF value = <<"r", "?">>
        THEN << HighLevelToken(TokenType.Directive, Null),
                HighLevelToken(TokenType.AssignReviewer, Null) >>
        ELSE IF value = <<"r", "-">>
        THEN << HighLevelToken(TokenType.Directive, Null),
                HighLevelToken(TokenType.RejectPullRequest, Null) >>
        ELSE IF value = <<"r", "+">>
        THEN << HighLevelToken(TokenType.Directive, Null),
                HighLevelToken(TokenType.AcceptPullRequest, Null) >>
        ELSE IF Len(value) >= 1 /\ value[1] = "@"
        THEN << HighLevelToken(TokenType.UserName, Some(StripAllAt(value))) >>
        ELSE << HighLevelToken(TokenType.Unknown, Null) >>

\* The tokens the generator createHighLevelToken yields, in order.
createHighLevelToken(token) ==
    LET value == token.value[1]
    IN  IF value = <<"r", "?">>
        THEN << HighLevelToken(TokenType.Directive, Null),
                HighLevelToken(TokenType.AssignReviewer, Null) >>
        ELSE IF value = <<"r", "-">>
        THEN << HighLevelToken(TokenType.Directive, Null),
                HighLevelToken(TokenType.RejectPullRequest, Null) >>
        ELSE IF value = <<"r", "+">>
        THEN << HighLevelToken(TokenType.Directive, Null),
                HighLevelToken(TokenType.AcceptPullRequest, Null) >>
        ELSE IF Len(value) >= 1 /\ value[1] = "@"
        THEN << HighLevelToken(TokenType.UserName, Some(Tail(value))) >>
        ELSE << HighLevelToken(TokenType.Unknown, Null) >>

\* Mutant: the case Eof yields an Eof token before the generator goes on.
tokenizeHighLevel_switch_YieldsEof(token) ==
    IF token.type = LowLevelTokenType.WhiteSpace
    THEN [pc |-> "loop", pending |-> <<>>]
    ELSE IF token.type = LowLevelTokenType.Eof
    THEN [pc |-> "yield", pending |-> << HighLevelToken(TokenType.Eof, Null) >>]
    ELSE IF token.type = LowLevelTokenType.Identifier
    THEN [pc |-> "yield", pending |-> createHighLevelToken(token)]
    ELSE [pc |-> "loop", pending |-> <<>>]

\* Mutant: the case Invalid is handled as the case Identifier.
tokenizeHighLevel_switch_InvalidAsIdentifier(token) ==
    IF token.type = LowLevelTokenType.WhiteSpace
    THEN [pc |-> "loop", pending |-> <<>>]
    ELSE IF token.type = LowLevelTokenType.Eof
    THEN [pc |-> "done", pending |-> <<>>]
    ELSE IF token.type \in {LowLevelTokenType.Identifier, LowLevelTokenType.Invalid}
    THEN [pc |-> "yield", pending |-> createHighLevelToken(token)]
    ELSE [pc |-> "loop", pending |-> <<>>]

\* The switch of tokenizeHighLevel on a low-level token: where the generator
\* goes next and what it has to yield first.
tokenizeHighLevel_switch(token) ==
    IF token.type = LowLevelTokenType.WhiteSpace
    THEN [pc |-> "loop", pending |-> <<>>]
    ELSE IF token.type = LowLevelTokenType.Eof
    THEN [pc |-> "done", pending |-> <<>>]
    ELSE IF token.type = LowLevelTokenType.Identifier
    THEN [pc |-> "yield", pending |-> createHighLevelToken(token)]
    ELSE [pc |-> "loop", pending |-> <<>>]

---------------------------------------------------------------------------
(* State *)

VARIABLES
    source,   \* the input string
    iter,     \* the BackableStringIterator object (Null before construction)
    scanner,  \* the LowLevelScanner object (Null before construction)
    gen,      \* the tokenizeHighLevel generator: pc, token in hand, pending yields
    lowOut,   \* the low-level tokens the scanner has returned, in order
    out,      \* the semantic tokens the generator has yielded, in order
    hist,     \* the results of the driver's direct calls on scanner or iterator
    ops,      \* the driver's calls of next() on the scanner after it closed
    two,      \* two tokenizeString(source) generators and their objects (TwoSpec)
    main      \* the run of main() of index.mjs (MainSpec)

vars == <<source, iter, scanner, gen, lowOut, out, hist, ops, two, main>>

NoGen == [pc |-> "none", token |-> Null, pending |-> <<>>]
Last(h) == h[Len(h)]

---------------------------------------------------------------------------
(* Spec: one tokenizeString(source) generator pulled to completion *)

Init ==
    /\ source \in Inputs
    /\ iter = Null
    /\ scanner = Null
    /\ gen = [pc |-> "start", token |-> Null, pending |-> <<>>]
    /\ lowOut = <<>>
    /\ out = <<>>
    /\ hist = <<>>
    /\ ops = 0
    /\ two = Null
    /\ main = Null

\* First resumption: const tokenStream = new LowLevelScanner(string).
Start ==
    /\ gen.pc = "start"
    /\ iter' = BackableStringIterator(source)
    /\ scanner' = LowLevelScanner(source)
    /\ gen' = [gen EXCEPT !.pc = "loop"]
    /\ UNCHANGED <<source, lowOut, out, hist, ops, two, main>>

\* for (const token of tokenStream): one tokenStream.next().
TokenStreamNext ==
    /\ gen.pc = "loop"
    /\ \E r \in {LowLevelScanner_next(scanner, iter)} :
           /\ iter' = r.it
           /\ scanner' = r.sc
           /\ gen' = IF r.threw THEN [gen EXCEPT !.pc = "threw"]
                     ELSE IF r.done THEN [gen EXCEPT !.pc = "done"]
                     ELSE [gen EXCEPT !.pc = "switch", !.token = r.value]
           /\ lowOut' = IF r.threw \/ r.done THEN lowOut
                        ELSE Append(lowOut, r.value[1])
    /\ UNCHANGED <<source, out, hist, ops, two, main>>

\* switch (token.type) of the loop body.
SwitchToken ==
    /\ gen.pc = "switch"
    /\ LET s == tokenizeHighLevel_switch(gen.token[1])
       IN  gen' = [gen EXCEPT !.pc = s.pc, !.pending = s.pending]
    /\ UNCHANGED <<source, iter, scanner, lowOut, out, hist, ops, two, main>>

\* yield* createHighLevelToken(token): one token handed to the consumer.
Yield ==
    /\ gen.pc = "yield"
    /\ out' = Append(out, Head(gen.pending))
    /\ gen' = [gen EXCEPT !.pending = Tail(gen.pending),
                          !.pc = IF Len(gen.pending) > 1 THEN "yield" ELSE "loop"]
    /\ UNCHANGED <<source, iter, scanner, lowOut, hist, ops, two, main>>

Next == Start \/ TokenStreamNext \/ SwitchToken \/ Yield

Spec == Init /\ [][Next]_vars

\* The consumer pulls the generator until it reports done.
FairSpec == Spec /\ WF_vars(Next)

---------------------------------------------------------------------------
(* ScannerSpec: a driver calls next() on a LowLevelScanner, also after Eof *)

ScannerInit ==
    /\ source \in Inputs
    /\ iter = BackableStringIterator(source)
    /\ scanner = LowLevelScanner(source)
    /\ gen = NoGen
    /\ lowOut = <<>>
    /\ out = <<>>
    /\ hist = <<>>
    /\ ops = 0
    /\ two = Null
    /\ main = Null

ScannerNext ==
    /\ hist # <<>> => ~Last(hist).threw
    /\ scanner._hasReachedEof => ops < MaxCallsAfterEof
    /\ \E r \in {LowLevelScanner_next(scanner, iter)} :
           /\ iter' = r.it
           /\ scanner' = r.sc
           /\ hist' = Append(hist, [op |-> "next", done |-> r.done,
                                     value |-> r.value, threw |-> r.threw])
           /\ lowOut' = IF r.threw \/ r.done THEN lowOut
                        ELSE Append(lowOut, r.value[1])
    /\ ops' = IF scanner._hasReachedEof THEN ops + 1 ELSE ops
    /\ UNCHANGED <<source, gen, out, two, main>>

ScannerSpec == ScannerInit /\ [][ScannerNext]_vars

\* The driver keeps calling next().
ScannerFairSpec == ScannerSpec /\ WF_vars(ScannerNext)

---------------------------------------------------------------------------
(* IterSpec: a driver calls next() and back() on a BackableStringIterator; *)
(* a failed assertion of back() is caught and the driver goes on           *)

IterInit ==
    /\ source \in Inputs
    /\ iter = BackableStringIterator(source)
    /\ scanner = Null
    /\ gen = NoGen
    /\ lowOut = <<>>
    /\ out = <<>>
    /\ hist = <<>>
    /\ ops = 0
    /\ two = Null
    /\ main = Null

\* pos: the position of the underlying string iterator after the call.
IterNext ==
    /\ Len(hist) < MaxOps
    /\ LET r == BackableStringIterator_next(iter)
       IN  /\ iter' = r.it
           /\ hist' = Append(hist, [op |-> "next", done |-> r.done,
                                     value |-> r.value, threw |-> FALSE,
                                     pos |-> r.it._iter.pos])
    /\ UNCHANGED <<source, scanner, gen, lowOut, out, ops, two, main>>

IterBack ==
    /\ Len(hist) < MaxOps
    /\ LET r == BackableStringIterator_back(iter)
       IN  /\ iter' = r.it
           /\ hist' = Append(hist, [op |-> "back", done |-> FALSE,
                                     value |-> Null, threw |-> r.threw,
                                     pos |-> r.it._iter.pos])
    /\ UNCHANGED <<source, scanner, gen, lowOut, out, ops, two, main>>

IterStep == IterNext \/ IterBack

IterSpec == IterInit /\ [][IterStep]_vars

---------------------------------------------------------------------------
(* TwoSpec: two tokenizeString(source) generators on the same string, their *)
(* resumptions interleaved in every order. Objects live in a heap: a        *)
(* scanner holds a reference to the iterator its constructor allocated.     *)

Instances == {1, 2}

\* A mutation: the constructor keeps its iterator in one slot all scanners use.
NewIterator_Shared(heap) == 1

\* new BackableStringIterator(source): the reference of a fresh object.
NewIterator(heap) == Len(heap) + 1

\* The heap after the constructor stored the iterator at reference ref.
Allocate(heap, ref, obj) ==
    IF ref > Len(heap) THEN Append(heap, obj) ELSE [heap EXCEPT ![ref] = obj]

\* The iterator a scanner refers to (none once _destroy() has run).
Deref(heap, sc) ==
    IF sc._sourceIter = Null THEN Null ELSE heap[sc._sourceIter[1]]

\* tokenizeHighLevel(string) run alone to its end: the tokens it yields.
RECURSIVE tokenizeHighLevel_loop(_, _, _)
tokenizeHighLevel_loop(sc, it, acc) ==
    Let(LowLevelScanner_next(sc, it), LAMBDA r :
        IF r.threw \/ r.done THEN acc
        ELSE Let(tokenizeHighLevel_switch(r.value[1]), LAMBDA s :
                 IF s.pc = "done" THEN acc
                 ELSE tokenizeHighLevel_loop(r.sc, r.it, acc \o s.pending)))

tokenizeHighLevel(string) ==
    tokenizeHighLevel_loop(LowLevelScanner(string),
                           BackableStringIterator(string), <<>>)

\* The strings two generators are created on: the examples and all shorter
\* strings (the interleavings multiply the states of every string).
TwoInputs == Strings(MaxLen - 1) \cup Examples

TwoInit ==
    /\ source \in TwoInputs
    /\ iter = Null
    /\ scanner = Null
    /\ gen = NoGen
    /\ lowOut = <<>>
    /\ out = <<>>
    /\ hist = <<>>
    /\ ops = 0
    /\ two = [heap    |-> <<>>,
              scanner |-> [i \in Instances |-> Null],
              gen     |-> [i \in Instances |->
                              [pc |-> "start", token |-> Null, pending |-> <<>>]],
              out     |-> [i \in Instances |-> <<>>]]
    /\ main = Null

\* First resumption of generator i: new LowLevelScanner(string).
TwoStart(i) ==
    /\ two.gen[i].pc = "start"
    /\ \E ref \in {NewIterator(two.heap)} :
           two' = [two EXCEPT
               !.heap = Allocate(two.heap, ref, BackableStringIterator(source)),
               !.scanner[i] = [LowLevelScanner(source) EXCEPT
                                   !._sourceIter = Some(ref)],
               !.gen[i].pc = "loop"]
    /\ UNCHANGED <<source, iter, scanner, gen, lowOut, out, hist, ops, main>>

\* One tokenStream.next() of generator i, on the iterator its scanner holds.
TwoTokenStreamNext(i) ==
    /\ two.gen[i].pc = "loop"
    /\ \E r \in {LowLevelScanner_next(two.scanner[i],
                                      Deref(two.heap, two.scanner[i]))} :
           two' = [two EXCEPT
               !.heap = IF two.scanner[i]._sourceIter = Null THEN @
                        ELSE [@ EXCEPT ![two.scanner[i]._sourceIter[1]] = r.it],
               !.scanner[i] = r.sc,
               !.gen[i] = IF r.threw THEN [@ EXCEPT !.pc = "threw"]
                          ELSE IF r.done THEN [@ EXCEPT !.pc = "done"]
                          ELSE [@ EXCEPT !.pc = "switch", !.token = r.value]]
    /\ UNCHANGED <<source, iter, scanner, gen, lowOut, out, hist, ops, main>>

\* switch (token.type) of generator i.
TwoSwitchToken(i) ==
    /\ two.gen[i].pc = "switch"
    /\ LET s == tokenizeHighLevel_switch(two.gen[i].token[1])
       IN  two' = [two EXCEPT !.gen[i].pc = s.pc, !.gen[i].pending = s.pending]
    /\ UNCHANGED <<source, iter, scanner, gen, lowOut, out, hist, ops, main>>

\* Generator i hands one token to its consumer.
TwoYield(i) ==
    /\ two.gen[i].pc = "yield"
    /\ two' = [two EXCEPT
           !.out[i] = Append(@, Head(two.gen[i].pending)),
           !.gen[i].pending = Tail(@),
           !.gen[i].pc = IF Len(two.gen[i].pending) > 1 THEN "yield" ELSE "loop"]
    /\ UNCHANGED <<source, iter, scanner, gen, lowOut, out, hist, ops, main>>

TwoNext ==
    \E i \in Instances :
        TwoStart(i) \/ TwoTokenStreamNext(i) \/ TwoSwitchToken(i) \/ TwoYield(i)

TwoSpec == TwoInit /\ [][TwoNext]_vars

---------------------------------------------------------------------------
(* MainSpec: one run of main() of index.mjs. The environment, the event    *)
(* file and what parseString returns for the comment are inputs; the three *)
(* operations are calls the run records. An absent or non-string value is  *)
(* Null, a present one Some(...). main() is suspended at each await: the   *)
(* call before it and the settlement after it are separate steps.          *)

CommandType == [AssignReviewer    |-> "AssignReviewer",
                AcceptPullRequest |-> "AcceptPullRequest",
                RejectPullRequest |-> "RejectPullRequest"]

\* process.env of the run.
Environments ==
    [GITHUB_TOKEN      : {Null, Some("token")},
     GITHUB_REPOSITORY : {Null, Some("owner/repo")},
     GITHUB_EVENT_NAME : {Null, Some("issue_comment"),
                          Some("pull_request_review"), Some("push")},
     GITHUB_EVENT_PATH : {Null, Some("/event.json")}]

EventActions == {"created", "submitted", "edited"}
Logins == {"alice", "bob"}
Bodies == {Null, Some("comment")}

\* The subject of an event: .issue or .pull_request.
Subject(login) ==
    [user |-> [login |-> login], number |-> 7,
     assignees |-> << [login |-> "dave"] >>]

\* The parsed event file: an issue_comment or a pull_request_review payload.
EventData ==
    { [action |-> a, issue |-> Some(Subject(l)), comment |-> Some([body |-> b]),
       pull_request |-> Null, review |-> Null]
        : a \in EventActions, l \in Logins, b \in Bodies }
    \cup
    { [action |-> a, issue |-> Null, comment |-> Null,
       pull_request |-> Some(Subject(l)), review |-> Some([body |-> b])]
        : a \in EventActions, l \in Logins, b \in Bodies }

\* The file GITHUB_EVENT_PATH names: absent, present and not JSON (json is
\* Null), or present with an event payload.
EventFiles ==
    { [exists |-> FALSE, json |-> Null], [exists |-> TRUE, json |-> Null] }
    \cup { [exists |-> TRUE, json |-> Some(d)] : d \in EventData }

\* What parseString(commentBody) may return: null or a command.
ParseResults ==
    { Null,
      Some([type |-> CommandType.AssignReviewer, target |-> Some(<<"carol">>)]),
      Some([type |-> CommandType.AssignReviewer,
            target |-> Some(<<"bob", "carol">>)]),
      Some([type |-> CommandType.AcceptPullRequest, target |-> Null]),
      Some([type |-> CommandType.RejectPullRequest, target |-> Null]),
      Some([type |-> "Other", target |-> Null]) }

\* isString(value): TRUE when the assertion passes.
isString(value) == value # Null

\* getCurrentAssignee(assignees)
getCurrentAssignee(assignees) ==
    [k \in 1..Len(assignees) |-> assignees[k].login]

\* Lines 37-53: the error the environment checks raise, Null when they pass.
main_checkEnv(env) ==
    IF ~isString(env.GITHUB_TOKEN) THEN Some("AssertionError")
    ELSE IF ~isString(env.GITHUB_REPOSITORY) THEN Some("AssertionError")
    ELSE IF ~isString(env.GITHUB_EVENT_NAME) THEN Some("AssertionError")
    ELSE IF /\ env.GITHUB_EVENT_NAME # Some("issue_comment")
            /\ env.GITHUB_EVENT_NAME # Some("pull_request_review")
         THEN Some("TypeError")
    ELSE IF ~isString(env.GITHUB_EVENT_PATH) THEN Some("AssertionError")
    ELSE Null

\* switch (GITHUB_EVENT_NAME): reading a property of an absent object throws.
main_switchEvent(name, eventData) ==
    LET fields(subject, comment) ==
            IF subject = Null \/ comment = Null
            THEN [error |-> Some("TypeError"), issueCreator |-> Null,
                  issueNumber |-> Null, commentBody |-> Null,
                  currentAssignee |-> Null]
            ELSE [error |-> Null,
                  issueCreator |-> Some(subject[1].user.login),
                  issueNumber |-> Some(subject[1].number),
                  commentBody |-> comment[1].body,
                  currentAssignee |->
                      Some(getCurrentAssignee(subject[1].assignees))]
    IN  IF name = Some("issue_comment")
        THEN fields(eventData.issue, eventData.comment)
        ELSE IF name = Some("pull_request_review")
        THEN fields(eventData.pull_request, eventData.review)
        ELSE [error |-> Some("RangeError"), issueCreator |-> Null,
              issueNumber |-> Null, commentBody |-> Null,
              currentAssignee |-> Null]

\* A mutation: every command passes its own target on.
main_switchCommand_AlwaysTarget(command, issueCreator) ==
    IF command.type = CommandType.AssignReviewer
    THEN [error |-> Null, task |-> Some("assignReviewer"),
          nextAssignee |-> command.target]
    ELSE IF command.type = CommandType.AcceptPullRequest
    THEN [error |-> Null, task |-> Some("acceptPullRequest"),
          nextAssignee |-> command.target]
    ELSE IF command.type = CommandType.RejectPullRequest
    THEN [error |-> Null, task |-> Some("rejectPullRequest"),
          nextAssignee |-> command.target]
    ELSE [error |-> Some("RangeError"), task |-> Null, nextAssignee |-> Null]

\* A mutation: an unknown command falls through to rejectPullRequest.
main_switchCommand_NoDefault(command, issueCreator) ==
    IF command.type = CommandType.AssignReviewer
    THEN [error |-> Null, task |-> Some("assignReviewer"),
          nextAssignee |-> command.target]
    ELSE IF command.type = CommandType.AcceptPullRequest
    THEN [error |-> Null, task |-> Some("acceptPullRequest"),
          nextAssignee |-> Some(<<issueCreator[1]>>)]
    ELSE [error |-> Null, task |-> Some("rejectPullRequest"),
          nextAssignee |-> Some(<<issueCreator[1]>>)]

\* switch (command.type)
main_switchCommand(command, issueCreator) ==
    IF command.type = CommandType.AssignReviewer
    THEN [error |-> Null, task |-> Some("assignReviewer"),
          nextAssignee |-> command.target]
    ELSE IF command.type = CommandType.AcceptPullRequest
    THEN [error |-> Null, task |-> Some("acceptPullRequest"),
          nextAssignee |-> Some(<<issueCreator[1]>>)]
    ELSE IF command.type = CommandType.RejectPullRequest
    THEN [error |-> Null, task |-> Some("rejectPullRequest"),
          nextAssignee |-> Some(<<issueCreator[1]>>)]
    ELSE [error |-> Some("RangeError"), task |-> Null, nextAssignee |-> Null]

MainInit ==
    /\ source = <<>>
    /\ iter = Null
    /\ scanner = Null
    /\ gen = NoGen
    /\ lowOut = <<>>
    /\ out = <<>>
    /\ hist = <<>>
    /\ ops = 0
    /\ two = Null
    /\ \E env \in Environments, file \in EventFiles, parsed \in ParseResults :
           main = [pc |-> "env", env |-> env, file |-> file, parsed |-> parsed,
                   eventData |-> Null, issueCreator |-> Null,
                   issueNumber |-> Null, commentBody |-> Null,
                   currentAssignee |-> Null, command |-> Null, task |-> Null,
                   nextAssignee |-> Null, calls |-> <<>>, error |-> Null,
                   exitCode |-> Null]

Throw(e) == [main EXCEPT !.pc = "threw", !.error = e]

\* Lines 37-53: the environment variables are read and checked.
MainCheckEnv ==
    /\ main.pc = "env"
    /\ main' = IF main_checkEnv(main.env) # Null
               THEN Throw(main_checkEnv(main.env))
               ELSE [main EXCEPT !.pc = "read"]
    /\ UNCHANGED <<source, iter, scanner, gen, lowOut, out, hist, ops, two>>

\* Line 55: fs.readFile(GITHUB_EVENT_PATH, ...) is called; main() awaits it.
MainReadFile ==
    /\ main.pc = "read"
    /\ main' = [main EXCEPT !.pc = "reading"]
    /\ UNCHANGED <<source, iter, scanner, gen, lowOut, out, hist, ops, two>>

\* Lines 55-59: the read settles: it rejects for an absent file; otherwise
\* JSON.parse throws SyntaxError or returns the event data.
MainReadEvent ==
    /\ main.pc = "reading"
    /\ main' = IF ~main.file.exists THEN Throw(Some("Error"))
               ELSE IF main.file.json = Null THEN Throw(Some("SyntaxError"))
               ELSE [main EXCEPT !.pc = "event", !.eventData = main.file.json]
    /\ UNCHANGED <<source, iter, scanner, gen, lowOut, out, hist, ops, two>>

\* Lines 64-93: the action check, the event's fields, the body check.
MainSwitchEvent ==
    /\ main.pc = "event"
    /\ main' =
         IF /\ main.eventData[1].action # "created"
            /\ main.eventData[1].action # "submitted"
         THEN [main EXCEPT !.pc = "returned"]
         ELSE LET f == main_switchEvent(main.env.GITHUB_EVENT_NAME,
                                        main.eventData[1])
              IN  IF f.error # Null THEN Throw(f.error)
                  ELSE [main EXCEPT
                           !.issueCreator = f.issueCreator,
                           !.issueNumber = f.issueNumber,
                           !.commentBody = f.commentBody,
                           !.currentAssignee = f.currentAssignee,
                           !.pc = IF f.commentBody = Null THEN "returned"
                                  ELSE "parse"]
    /\ UNCHANGED <<source, iter, scanner, gen, lowOut, out, hist, ops, two>>

\* Lines 95-118: parseString, the null check, the choice of the task.
MainSwitchCommand ==
    /\ main.pc = "parse"
    /\ main' =
         IF main.parsed = Null
         THEN [main EXCEPT !.pc = "returned"]
         ELSE LET t == main_switchCommand(main.parsed[1], main.issueCreator)
              IN  IF t.error # Null
                  THEN [Throw(t.error) EXCEPT !.command = main.parsed]
                  ELSE [main EXCEPT !.command = main.parsed,
                                    !.task = t.task,
                                    !.nextAssignee = t.nextAssignee,
                                    !.pc = "task"]
    /\ UNCHANGED <<source, iter, scanner, gen, lowOut, out, hist, ops, two>>

\* Lines 120-130: task(...) is called; main() awaits its promise.
MainTask ==
    /\ main.pc = "task"
    /\ main' = [main EXCEPT
           !.calls = Append(@, [task |-> main.task[1],
                                repository |-> main.env.GITHUB_REPOSITORY[1],
                                issueNumber |-> main.issueNumber[1],
                                currentAssignee |-> main.currentAssignee[1],
                                nextAssignee |-> main.nextAssignee]),
           !.pc = "awaiting"]
    /\ UNCHANGED <<source, iter, scanner, gen, lowOut, out, hist, ops, two>>

\* Line 124: the operation's promise settles: main() returns, or the
\* rejection is thrown at the await.
MainTaskSettled ==
    /\ main.pc = "awaiting"
    /\ \E resolved \in BOOLEAN :
           main' = IF resolved THEN [main EXCEPT !.pc = "returned"]
                   ELSE Throw(Some("OperationError"))
    /\ UNCHANGED <<source, iter, scanner, gen, lowOut, out, hist, ops, two>>

\* Lines 131-134: .catch: console.error(e); process.exit(1).
MainCatch ==
    /\ main.pc = "threw"
    /\ main' = [main EXCEPT !.pc = "exited", !.exitCode = Some(1)]
    /\ UNCHANGED <<source, iter, scanner, gen, lowOut, out, hist, ops, two>>

MainNext ==
    \/ MainCheckEnv
    \/ MainReadFile
    \/ MainReadEvent
    \/ MainSwitchEvent
    \/ MainSwitchCommand
    \/ MainTask
    \/ MainTaskSettled
    \/ MainCatch

MainSpec == MainInit /\ [][MainNext]_vars

---------------------------------------------------------------------------
(* Helpers of the properties *)

\* Characters the scanner has consumed for good: read and not pushed back.
Consumed(it) == it._iter.pos - (IF it._prev # Null THEN 1 ELSE 0)

Done == gen.pc = "done"

RECURSIVE Flatten(_)
Flatten(ss) == IF ss = <<>> THEN <<>> ELSE Head(ss) \o Flatten(Tail(ss))

IsIdentifier(t) == t.type = LowLevelTokenType.Identifier

Identifiers(toks) == SelectSeq(toks, IsIdentifier)

CountEof(toks) ==
    Cardinality({k \in 1..Len(toks) : toks[k].type = LowLevelTokenType.Eof})

\* The whitespace-delimited words of a string, in order.
RECURSIVE WordsFrom(_, _, _)
WordsFrom(str, k, word) ==
    IF k > Len(str)
    THEN IF word = <<>> THEN <<>> ELSE <<word>>
    ELSE IF str[k] \in WhiteSpaceChars
    THEN (IF word = <<>> THEN <<>> ELSE <<word>>) \o WordsFrom(str, k + 1, <<>>)
    ELSE WordsFrom(str, k + 1, Append(word, str[k]))

Words(str) == WordsFrom(str, 1, <<>>)

Recognized(word) ==
    \/ word \in {<<"r", "?">>, <<"r", "-">>, <<"r", "+">>}
    \/ word[1] = "@"

NoRecognizedWord(str) ==
    \A k \in 1..Len(Words(str)) : ~Recognized(Words(str)[k])

Unknowns(n) == [k \in 1..n |-> [type |-> TokenType.Unknown, value |-> Null]]

---------------------------------------------------------------------------
(* C1 .. C10 *)

C1_ScanAdvances ==
    gen.pc = "loop" =>
        /\ gen'.pc = "switch"
        /\ \/ gen'.token[1].type = LowLevelTokenType.Eof
           \/ Consumed(iter') >= Consumed(iter) + 1

\* C1: pulling tokenizeString to completion terminates for every input: the
\* generator eventually reports done, and every LowLevelScanner._scan step
\* either emits Eof or makes a net advance of at least one character.
C1_Terminates == <>Done /\ [][C1_ScanAdvances]_vars

C1_Witness == Done /\ Len(lowOut) >= 4 /\ Consumed(iter) = Len(source)

\* C2: while the scanner is driven to Eof, back() is never called with an
\* empty cache: the pushback assertion is never raised.
C2_NoPushbackAssertion == gen.pc # "threw"

\* _scanOperator has pushed the other fragment back.
C2_Witness ==
    /\ gen.pc = "switch"
    /\ iter._prev # Null
    /\ gen.token[1].type = LowLevelTokenType.Invalid

C3_Expansion(value) ==
    IF value = <<"r", "?">>
    THEN << [type |-> TokenType.Directive, value |-> Null],
            [type |-> TokenType.AssignReviewer, value |-> Null] >>
    ELSE IF value = <<"r", "-">>
    THEN << [type |-> TokenType.Directive, value |-> Null],
            [type |-> TokenType.RejectPullRequest, value |-> Null] >>
    ELSE IF value = <<"r", "+">>
    THEN << [type |-> TokenType.Directive, value |-> Null],
            [type |-> TokenType.AcceptPullRequest, value |-> Null] >>
    ELSE IF value[1] = "@"
    THEN << [type |-> TokenType.UserName,
             value |-> Some(SubSeq(value, 2, Len(value)))] >>
    ELSE << [type |-> TokenType.Unknown, value |-> Null] >>

C3_Expected(toks) ==
    Flatten([k \in 1..Len(Identifiers(toks)) |->
                C3_Expansion(Identifiers(toks)[k].value[1])])

\* C3: the semantic token sequence is the in-order concatenation, over the
\* Identifier low-level tokens, of the per-identifier expansion (r? r- r+ give
\* Directive and the command, @... gives UserName, anything else Unknown).
C3_Expansion_Holds == Done => out = C3_Expected(lowOut)

C3_Witness ==
    /\ Done
    /\ source = <<"r", "+", " ", "@", "b", "o", "b", " ", "@", "c", "a", "r", "o", "l">>
    /\ out = << [type |-> TokenType.Directive, value |-> Null],
                [type |-> TokenType.AcceptPullRequest, value |-> Null],
                [type |-> TokenType.UserName, value |-> Some(<<"b", "o", "b">>)],
                [type |-> TokenType.UserName, value |-> Some(<<"c", "a", "r", "o", "l">>)] >>

IsAtIdentifier(t) == IsIdentifier(t) /\ t.value[1][1] = "@"

IsUserName(t) == t.type = TokenType.UserName

\* C4: every Identifier starting with @ gives exactly one UserName token, whose
\* value is the identifier without its first character; every other semantic
\* token carries a null value.
C4_UserName ==
    /\ \A k \in 1..Len(out) : ~IsUserName(out[k]) => out[k].value = Null
    /\ Done =>
        LET ids == SelectSeq(lowOut, IsAtIdentifier)
            users == SelectSeq(out, IsUserName)
        IN  /\ Len(users) = Len(ids)
            /\ \A k \in 1..Len(ids) :
                /\ users[k].value # Null
                /\ <<"@">> \o users[k].value[1] = ids[k].value[1]

C4_Witness ==
    /\ Done
    /\ source = <<"@", " ", "@", "@", "x">>
    /\ out = << [type |-> TokenType.UserName, value |-> Some(<<>>)],
                [type |-> TokenType.UserName, value |-> Some(<<"@", "x">>)] >>

OnlySpaceAndFragments(str) ==
    \A k \in 1..Len(str) : str[k] \in WhiteSpaceChars \cup {"|", "&"}

\* C5: an input made only of whitespace, | and & yields no semantic token.
C5_Empty == OnlySpaceAndFragments(source) => out = <<>>

C5_Witness ==
    /\ Done
    /\ source = <<"|", "&", "&">>
    /\ Len(lowOut) = 3
    /\ out = <<>>

\* C6 as stated: free text with no recognized word yields one Unknown token
\* per whitespace-delimited word.
C6_Original ==
    (Done /\ NoRecognizedWord(source)) => out = Unknowns(Len(Words(source)))

NoWordStartsWithFragment(str) ==
    \A k \in 1..Len(Words(str)) : Words(str)[k][1] \notin {"|", "&"}

\* C6 (amended): free text with no recognized word, and no word beginning
\* with | or &, yields one Unknown token per whitespace-delimited word.
C6_UnknownPerWord ==
    (Done /\ NoRecognizedWord(source) /\ NoWordStartsWithFragment(source))
        => out = Unknowns(Len(Words(source)))

C6_Witness ==
    /\ Done
    /\ source = <<"l", "o", "o", "k", "s", " ", "g", "o", "o", "d", " ", "t", "o", " ", "m", "e">>
    /\ out = Unknowns(4)

FragmentThenOther(str) ==
    /\ Len(str) = 2
    /\ str[1] \in {"|", "&"}
    /\ str[2] \notin WhiteSpaceChars \cup {"|", "&"}

\* C7 as stated: an operator fragment followed by one other character ("|x")
\* yields [Unknown].
C7_Original == (Done /\ FragmentThenOther(source)) => out = Unknowns(1)

\* C7 (amended): tokenize("|x") yields the empty sequence: the fragment becomes
\* an Invalid token, the character after it is consumed with it, and Eof follows.
C7_Swallowed ==
    (Done /\ FragmentThenOther(source)) =>
        /\ out = <<>>
        /\ lowOut = << [type |-> LowLevelTokenType.Invalid, value |-> Some(<<source[1]>>)],
                       [type |-> LowLevelTokenType.Eof, value |-> Null] >>

C7_Witness == Done /\ source = <<"|", "x">> /\ out = <<>>

C8_OneEofLast ==
    /\ CountEof(lowOut) = (IF scanner._hasReachedEof THEN 1 ELSE 0)
    /\ scanner._hasReachedEof => Last(lowOut).type = LowLevelTokenType.Eof

C8_ClosedStep ==
    scanner._hasReachedEof =>
        /\ Last(hist').done
        /\ Last(hist').value = Null
        /\ ~Last(hist').threw
        /\ iter' = iter
        /\ lowOut' = lowOut
        /\ scanner'._hasReachedEof

\* C8: a run of LowLevelScanner produces exactly one Eof token, the last one;
\* from then on every next() reports done with no value and does not touch the
\* character stream.
C8_ClosedForever ==
    /\ <>(scanner._hasReachedEof)
    /\ []C8_OneEofLast
    /\ [][C8_ClosedStep]_vars

C8_Witness ==
    /\ scanner._hasReachedEof
    /\ ops >= 2
    /\ Len(lowOut) >= 3
    /\ Last(hist).done

IsReturnedChar(e) == e.op = "next" /\ ~e.done

\* C9: after a next() that returned c at position i, back(); next() returns c
\* again without moving the underlying position and the next() after that
\* returns the character at i + 1, or end of input.
C9_Replay ==
    \A k \in 1..Len(hist) :
        IsReturnedChar(hist[k]) =>
            /\ hist[k].value = Some(source[hist[k].pos])
            /\ (k + 2 <= Len(hist) /\ hist[k + 1].op = "back" /\ hist[k + 2].op = "next") =>
                /\ ~hist[k + 1].threw
                /\ ~hist[k + 2].done
                /\ hist[k + 2].value = hist[k].value
                /\ hist[k + 2].pos = hist[k].pos
                /\ (k + 3 <= Len(hist) /\ hist[k + 3].op = "next") =>
                    IF hist[k].pos < Len(source)
                    THEN /\ ~hist[k + 3].done
                         /\ hist[k + 3].pos = hist[k].pos + 1
                         /\ hist[k + 3].value = Some(source[hist[k].pos + 1])
                    ELSE hist[k + 3].done

C9_Witness ==
    /\ Len(hist) = 5
    /\ hist[1].op = "next" /\ hist[2].op = "next" /\ hist[3].op = "back"
    /\ hist[4].op = "next" /\ hist[5].op = "next"
    /\ source = <<"x", "r", "+">>
    /\ hist[4].value = Some("r")
    /\ hist[5].value = Some("+")

\* C10: back() fails its assertion exactly when the call before it was not a
\* next() that returned a character (no call yet, a back(), or a next() that
\* reported end of input).
C10_BackAssertion ==
    \A k \in 1..Len(hist) :
        hist[k].op = "back" =>
            (hist[k].threw <=> ~(k > 1 /\ IsReturnedChar(hist[k - 1])))

C10_Witness ==
    /\ Len(hist) = 5
    /\ hist[1].op = "back" /\ hist[1].threw
    /\ IsReturnedChar(hist[2])
    /\ hist[3].op = "back" /\ ~hist[3].threw
    /\ hist[4].op = "back" /\ hist[4].threw
    /\ IsReturnedChar(hist[5])

---------------------------------------------------------------------------
(* Helpers of C12 .. C19 *)

Fragments == {"|", "&"}

\* The position in source of the first character of the token scanned next.
TokenStart == Consumed(iter) + 1

\* A step in which tokenStream.next() returned a token.
ScanStep == gen.pc = "loop" /\ gen'.pc = "switch"

Low(type, chars) == [type |-> type, value |-> Some(chars)]

EofToken == [type |-> LowLevelTokenType.Eof, value |-> Null]

High(type) == [type |-> type, value |-> Null]

\* Every token begins at the first character not yet consumed.
TokenBeginsAtStart ==
    (ScanStep /\ gen'.token[1].type # LowLevelTokenType.Eof)
        => gen'.token[1].value[1][1] = source[TokenStart]

---------------------------------------------------------------------------
(* C12 .. C19 *)

C12_Step ==
    /\ TokenBeginsAtStart
    /\ (/\ ScanStep
        /\ TokenStart + 1 <= Len(source)
        /\ source[TokenStart] \in Fragments
        /\ source[TokenStart + 1] \notin Fragments)
       => /\ gen'.token[1] = Low(LowLevelTokenType.Invalid, <<source[TokenStart]>>)
          /\ iter'._prev = Null
          /\ Consumed(iter') = TokenStart + 1

C12_Examples ==
    Done =>
        /\ source = <<"|", "x", "y">> =>
             lowOut = << Low(LowLevelTokenType.Invalid, <<"|">>),
                         Low(LowLevelTokenType.Identifier, <<"y">>), EofToken >>
        /\ source = <<"|", " ", "r", "+">> =>
             out = << High(TokenType.Directive), High(TokenType.AcceptPullRequest) >>
        /\ source = <<"|", "r", "+">> => out = << High(TokenType.Unknown) >>

\* C12: a token starting with a fragment c followed by a character v that is
\* no fragment is Invalid(c); v is consumed and not pushed back, so the next
\* token starts at the character after v.
C12_Discard == []C12_Examples /\ [][C12_Step]_vars

C12_Witness ==
    /\ Done
    /\ source = <<"|", "x", "y">>
    /\ Len(lowOut) = 3
    /\ lowOut[2] = Low(LowLevelTokenType.Identifier, <<"y">>)

C13_Step ==
    /\ (/\ ScanStep
        /\ TokenStart + 1 <= Len(source)
        /\ source[TokenStart] \in Fragments
        /\ source[TokenStart + 1] \in Fragments \ {source[TokenStart]})
       => /\ gen'.token[1] = Low(LowLevelTokenType.Invalid, <<source[TokenStart]>>)
          /\ iter'._prev = Some(source[TokenStart + 1])
          /\ Consumed(iter') = TokenStart
    /\ (ScanStep /\ iter._prev # Null)
       => gen'.token[1].value[1][1] = iter._prev[1]

C13_Examples ==
    Done =>
        /\ source = <<"|", "&">> =>
             lowOut = << Low(LowLevelTokenType.Invalid, <<"|">>),
                         Low(LowLevelTokenType.Invalid, <<"&">>), EofToken >>
        /\ source = <<"|", "&", "&">> =>
             lowOut = << Low(LowLevelTokenType.Invalid, <<"|">>),
                         Low(LowLevelTokenType.Operator, <<"&", "&">>), EofToken >>

\* C13: a token starting with a fragment c followed by the other fragment v is
\* Invalid(c), and v is pushed back and begins the next token.
C13_PushBack == []C13_Examples /\ [][C13_Step]_vars

C13_Witness ==
    /\ Done
    /\ source = <<"|", "&", "&">>
    /\ Len(lowOut) = 3
    /\ lowOut[2].type = LowLevelTokenType.Operator

C14_Step ==
    ScanStep =>
        /\ (gen'.token[1].type = LowLevelTokenType.Operator <=>
              /\ TokenStart + 1 <= Len(source)
              /\ source[TokenStart] \in Fragments
              /\ source[TokenStart + 1] = source[TokenStart])
        /\ (TokenStart = Len(source) /\ source[TokenStart] \in Fragments)
              => gen'.token[1] = Low(LowLevelTokenType.Invalid, <<source[TokenStart]>>)

C14_Values ==
    /\ \A k \in 1..Len(lowOut) :
          lowOut[k].type = LowLevelTokenType.Operator =>
              lowOut[k].value \in {Some(<<"|", "|">>), Some(<<"&", "&">>)}
    /\ Done =>
        /\ source = <<"|", "|", "|">> =>
             lowOut = << Low(LowLevelTokenType.Operator, <<"|", "|">>),
                         Low(LowLevelTokenType.Invalid, <<"|">>), EofToken >>
        /\ source = <<"|", "|", "|", "|">> =>
             lowOut = << Low(LowLevelTokenType.Operator, <<"|", "|">>),
                         Low(LowLevelTokenType.Operator, <<"|", "|">>), EofToken >>

\* C14: an Operator token is || or &&, produced exactly when a token starts
\* with a fragment followed by the same character; a lone fragment at the end
\* of input is Invalid; runs are paired from the left.
C14_Operator == []C14_Values /\ [][C14_Step]_vars

C14_Witness ==
    /\ Done
    /\ source = <<"|", "|", "|", "|">>
    /\ Len(lowOut) = 3
    /\ lowOut[2].type = LowLevelTokenType.Operator

\* C15: an Identifier value is non-empty, has no whitespace and does not begin
\* with | or &; only whitespace or the end of input ends it, so the token after
\* it is WhiteSpace or Eof.
C15_Identifier ==
    /\ \A k \in 1..Len(lowOut) :
          lowOut[k].type = LowLevelTokenType.Identifier =>
              LET v == lowOut[k].value[1]
              IN  /\ Len(v) >= 1
                  /\ \A j \in 1..Len(v) : v[j] \notin WhiteSpaceChars
                  /\ v[1] \notin Fragments
                  /\ k < Len(lowOut) =>
                        lowOut[k + 1].type \in
                            {LowLevelTokenType.WhiteSpace, LowLevelTokenType.Eof}
    /\ (Done /\ source \in {<<"r", "+", "|", "|", "r", "-">>, <<"r", "+", "|">>})
          => /\ lowOut = << Low(LowLevelTokenType.Identifier, source), EofToken >>
             /\ out = << High(TokenType.Unknown) >>

C15_Witness ==
    /\ Done
    /\ source = <<"r", "+", "|", "|", "r", "-">>
    /\ out = << High(TokenType.Unknown) >>

C16_Values ==
    \A k \in 1..Len(lowOut) :
        lowOut[k].type = LowLevelTokenType.WhiteSpace =>
            LET v == lowOut[k].value[1]
            IN  /\ Len(v) >= 1
                /\ \A j \in 1..Len(v) : v[j] \in WhiteSpaceChars
                /\ k < Len(lowOut) =>
                      lowOut[k + 1].type # LowLevelTokenType.WhiteSpace

C16_Step ==
    (/\ ScanStep
     /\ lowOut # <<>>
     /\ Last(lowOut).type = LowLevelTokenType.WhiteSpace
     /\ gen'.token[1].type # LowLevelTokenType.Eof)
    => /\ iter._prev # Null
       /\ iter._prev[1] \notin WhiteSpaceChars
       /\ iter._prev[1] = source[TokenStart]
       /\ gen'.token[1].value[1][1] = iter._prev[1]

\* C16: a WhiteSpace value is a non-empty run of whitespace only, no WhiteSpace
\* token follows another, and the character that ended the run is the first
\* character of the next token.
C16_WhiteSpace == []C16_Values /\ [][C16_Step]_vars

C16_Witness ==
    /\ Done
    /\ source = <<" ", "\n", "x">>
    /\ lowOut = << Low(LowLevelTokenType.WhiteSpace, <<" ", "\n">>),
                   Low(LowLevelTokenType.Identifier, <<"x">>), EofToken >>

\* C17: no semantic token of type Eof is yielded; on the low-level Eof the
\* sequence ends, and every yielded type is one of the six others.
C17_NoEofToken ==
    /\ \A k \in 1..Len(out) :
          out[k].type \in {TokenType.Directive, TokenType.AcceptPullRequest,
                           TokenType.RejectPullRequest, TokenType.AssignReviewer,
                           TokenType.UserName, TokenType.Unknown}
    /\ (lowOut # <<>> /\ Last(lowOut).type = LowLevelTokenType.Eof)
          => gen.pc \in {"switch", "done"} /\ gen.pending = <<>>

C17_Witness ==
    /\ Done
    /\ Last(lowOut).type = LowLevelTokenType.Eof
    /\ Len(out) = 3
    /\ out[3].type = TokenType.UserName

Commands ==
    {TokenType.AcceptPullRequest, TokenType.RejectPullRequest, TokenType.AssignReviewer}

\* C18: in a fully pulled sequence every Directive is immediately followed by
\* one of the three command tokens, and every command token is immediately
\* preceded by a Directive.
C18_DirectivePairs ==
    Done =>
        \A k \in 1..Len(out) :
            /\ out[k].type = TokenType.Directive =>
                  k < Len(out) /\ out[k + 1].type \in Commands
            /\ out[k].type \in Commands =>
                  k > 1 /\ out[k - 1].type = TokenType.Directive

C18_Witness ==
    /\ Done
    /\ source = <<"r", "?", " ", "r", "-">>
    /\ Len(out) = 4
    /\ out[3].type = TokenType.Directive
    /\ out[4].type = TokenType.RejectPullRequest

\* The input without the characters C19 names: read from the left, a token
\* that starts with a fragment followed by a character that is no fragment
\* loses that character.
RECURSIVE C19_Kept(_, _, _)
C19_Kept(str, k, inRun) ==
    IF k > Len(str) THEN <<>>
    ELSE IF inRun = "identifier" /\ str[k] \notin WhiteSpaceChars
    THEN <<str[k]>> \o C19_Kept(str, k + 1, "identifier")
    ELSE IF str[k] \in WhiteSpaceChars
    THEN <<str[k]>> \o C19_Kept(str, k + 1, "space")
    ELSE IF str[k] \notin Fragments
    THEN <<str[k]>> \o C19_Kept(str, k + 1, "identifier")
    ELSE IF k = Len(str) THEN <<str[k]>>
    ELSE IF str[k + 1] = str[k]
    THEN <<str[k], str[k]>> \o C19_Kept(str, k + 2, "operator")
    ELSE IF str[k + 1] \in Fragments
    THEN <<str[k]>> \o C19_Kept(str, k + 1, "operator")
    ELSE <<str[k]>> \o C19_Kept(str, k + 2, "operator")

C19_Values(toks) ==
    Flatten([k \in 1..Len(toks) |->
                IF toks[k].value = Null THEN <<>> ELSE toks[k].value[1]])

\* C19: the values of the low-level tokens, concatenated, are the input without
\* the characters that follow a token-starting fragment and are no fragments;
\* without | and & in the input they are the input itself.
C19_Concatenation ==
    Done =>
        /\ C19_Values(lowOut) = C19_Kept(source, 1, "start")
        /\ (\A k \in 1..Len(source) : source[k] \notin Fragments)
              => C19_Values(lowOut) = source

C19_Witness ==
    /\ Done
    /\ source = <<"x", " ", "|", "r", "+", "\t", "@", "@", "x">>
    /\ C19_Values(lowOut) = <<"x", " ", "|", "+", "\t", "@", "@", "x">>

---------------------------------------------------------------------------
\* C11: two tokenizeString generators on the same string, resumed in any
\* interleaving, share nothing: at every moment each one's yielded tokens
\* are a prefix of what a single generator run alone yields, and once a
\* generator is done (or its scanner threw) its tokens are exactly that
\* sequence; the two iterators are distinct objects.
IsPrefix(a, b) == Len(a) <= Len(b) /\ SubSeq(b, 1, Len(a)) = a

C11_Independent ==
    two # Null =>
        \A i \in Instances :
            /\ IsPrefix(two.out[i], tokenizeHighLevel(source))
            /\ two.gen[i].pc \in {"done", "threw"} =>
                   two.out[i] = tokenizeHighLevel(source)
            /\ \A j \in Instances :
                   (/\ i # j
                    /\ two.scanner[i] # Null /\ two.scanner[j] # Null
                    /\ two.scanner[i]._sourceIter # Null)
                   => two.scanner[i]._sourceIter # two.scanner[j]._sourceIter

\* Both generators are mid-run on "r+ @bob @carol", at different tokens: the
\* first has yielded three tokens and holds the fourth, the second has
\* yielded one and has read no further than "r+".
C11_Witness ==
    /\ two # Null
    /\ source = <<"r", "+", " ", "@", "b", "o", "b", " ",
                  "@", "c", "a", "r", "o", "l">>
    /\ two.gen[1].pc = "yield" /\ Len(two.out[1]) = 3
    /\ two.gen[2].pc = "yield" /\ Len(two.out[2]) = 1
    /\ Consumed(two.heap[1]) = 14 /\ Consumed(two.heap[2]) = 2

---------------------------------------------------------------------------
\* C20: main() invokes at most one operation, and only when the event name
\* is issue_comment or pull_request_review, the event action is created or
\* submitted, the comment body is a string and parseString returned a
\* command; the operation is the one of the command's type, called with
\* [issueCreator] as next assignee for AcceptPullRequest and
\* RejectPullRequest and with the command's target for AssignReviewer; a run
\* with an unsupported event name, or one that reaches an unknown command
\* type, ends with an error and without an invocation.
MainEnded == main.pc \in {"returned", "exited"}

SupportedEvent ==
    main.env.GITHUB_EVENT_NAME \in
        {Some("issue_comment"), Some("pull_request_review")}

\* The creator the event file names for the event.
EventCreator ==
    IF main.env.GITHUB_EVENT_NAME = Some("issue_comment")
    THEN main.file.json[1].issue[1].user.login
    ELSE main.file.json[1].pull_request[1].user.login

EventBody ==
    IF main.env.GITHUB_EVENT_NAME = Some("issue_comment")
    THEN main.file.json[1].comment[1].body
    ELSE main.file.json[1].review[1].body

C20_Invoked ==
    main.calls # <<>> =>
        /\ SupportedEvent
        /\ main.file.exists /\ main.file.json # Null
        /\ main.file.json[1].action \in {"created", "submitted"}
        /\ EventBody # Null
        /\ main.parsed # Null
        /\ LET call == main.calls[1]
               type == main.parsed[1].type
           IN  /\ type = CommandType.AssignReviewer =>
                      /\ call.task = "assignReviewer"
                      /\ call.nextAssignee = main.parsed[1].target
               /\ type = CommandType.AcceptPullRequest =>
                      /\ call.task = "acceptPullRequest"
                      /\ call.nextAssignee = Some(<<EventCreator>>)
               /\ type = CommandType.RejectPullRequest =>
                      /\ call.task = "rejectPullRequest"
                      /\ call.nextAssignee = Some(<<EventCreator>>)
               /\ type \in {CommandType.AssignReviewer,
                            CommandType.AcceptPullRequest,
                            CommandType.RejectPullRequest}

C20_Errors ==
    MainEnded =>
        /\ ~SupportedEvent =>
               main.error # Null /\ main.exitCode = Some(1) /\ main.calls = <<>>
        /\ (main.command # Null /\ main.command[1].type = "Other") =>
               main.error = Some("RangeError") /\ main.exitCode = Some(1)
               /\ main.calls = <<>>

C20_Dispatch ==
    main # Null => Len(main.calls) <= 1 /\ C20_Invoked /\ C20_Errors

\* A pull_request_review by bob whose comment parses to AcceptPullRequest:
\* acceptPullRequest was called once with [bob].
C20_Witness ==
    /\ main # Null
    /\ main.pc = "returned"
    /\ main.env.GITHUB_EVENT_NAME = Some("pull_request_review")
    /\ main.parsed = Some([type |-> CommandType.AcceptPullRequest,
                           target |-> Null])
    /\ Len(main.calls) = 1
    /\ main.calls[1].task = "acceptPullRequest"
    /\ main.calls[1].nextAssignee = Some(<<"bob">>)

====
